---- MODULE Spec2Model ----
(***************************************************************************)
(* Model of the daily collection engine of AI_daily_tasks:                 *)
(*   app/services/scheduler.py    per-group start, timeout, early summary  *)
(*   app/services/bot_service.py  handling of member messages and /change  *)
(*   app/services/gemini_service.py  the quality judge                     *)
(*   app/api/endpoints/groups.py, users.py  the requests of administrators *)
(* The database rows of the users table are the variable users; each       *)
(* telebot worker thread is one entry of hs; the APScheduler job store is  *)
(* the variable jobs.                                                      *)
(***************************************************************************)
EXTENDS Integers, Sequences, FiniteSets, TLC

\* ---------------------------------------------------------------- bounds
MaxMsgs == 4        \* messages (texts and /change) received in one run

\* ------------------------------------------------------ program constants
MinLen == 5         \* gemini_service.py:137  len(response_text.strip()) < 5
MaxRetries == 3     \* bot_service.py:612     response_retry_count < 3

\* ------------------------------------------------------------ population
Groups == {1, 2}
Users == {1, 2, 3}
Handlers == {1, 2}
\* users 1 and 2 are the activated members of group 1; user 3 belongs to
\* group 2 and has not followed the activation link yet
GroupOf(u) == IF u <= 2 THEN 1 ELSE 2
Verified(u) == u <= 2

None == <<>>
NoToken == "none"
EditingMode == "editing_mode"

\* texts a member can send, as sequences of characters: a short one in
\* blanks and a long one
Texts == { <<" ", " ", "o", "k", " ", " ">>,
           <<"p", "l", "a", "n", "A">> }

\* ------------------------------------------------------------ str.strip()
IsSpace(c) == c = " "

RECURSIVE lstrip(_)
lstrip(s) ==
  IF s = <<>> THEN s
  ELSE IF IsSpace(Head(s)) THEN lstrip(Tail(s)) ELSE s

RECURSIVE rstrip(_)
rstrip(s) ==
  IF s = <<>> THEN s
  ELSE IF IsSpace(s[Len(s)]) THEN rstrip(SubSeq(s, 1, Len(s) - 1)) ELSE s

\* a variant that leaves the blanks in place; the too-short rule depends on
\* the difference
strip_kept(s) == s

strip(s) == rstrip(lstrip(s))

\* ------------------------------------------------------------- the judge
\* Raw outcomes of the text generator when used as a judge: no answer
\* (None), an exception out of analyze_response_quality, or a text.  A text
\* is a sequence of lines; a line "KEY: value" is the record [key, value].
JudgeNone == [kind |-> "none", lines |-> <<>>]
JudgeRaise == [kind |-> "raise", lines |-> <<>>]
JudgeYes == [kind |-> "text",
             lines |-> << [key |-> "ACCEPTABLE", value |-> "yes"],
                          [key |-> "FEEDBACK", value |-> "good"] >>]
JudgeNo == [kind |-> "text",
            lines |-> << [key |-> "ACCEPTABLE", value |-> "no"],
                         [key |-> "FEEDBACK", value |-> "vague"],
                         [key |-> "REASON", value |-> "too_vague"] >>]
JudgeGarbage == [kind |-> "text",
                 lines |-> << [key |-> "", value |-> "looks fine"] >>]
JudgeOutcomes == {JudgeNone, JudgeRaise, JudgeYes, JudgeNo, JudgeGarbage}

\* what the generator did when it was asked: "fail" (no answer, an
\* exception, no ACCEPTABLE line), "yes" or "no"
JudgeClass(jr) ==
  IF jr.kind # "text" THEN "fail"
  ELSE IF \A i \in DOMAIN jr.lines : jr.lines[i].key # "ACCEPTABLE" THEN "fail"
  ELSE IF jr = JudgeYes THEN "yes" ELSE "no"

\* the loop over the lines of the reply: the last ACCEPTABLE line wins
RECURSIVE ParseAcceptable(_, _)
ParseAcceptable(lines, acc) ==
  IF lines = <<>> THEN acc
  ELSE LET l == Head(lines)
       IN ParseAcceptable(Tail(lines),
            IF l.key = "ACCEPTABLE"
            THEN (IF l.value \in {"da", "yes", "true"} THEN "true" ELSE "false")
            ELSE acc)

TooShort(text) == text = <<>> \/ Len(strip(text)) < MinLen

\* a variant of the analysis that fails closed: a generator that gives no
\* usable verdict makes the text unacceptable
analyze_fail_closed(text, jr) ==
  IF TooShort(text)
  THEN [raised |-> FALSE, is_acceptable |-> FALSE, reason |-> "too_short",
        feedback |-> "too_short", called |-> FALSE]
  ELSE LET acc == IF jr.kind = "text" THEN ParseAcceptable(jr.lines, "unset")
                  ELSE "unset"
       IN [raised |-> FALSE, is_acceptable |-> (acc = "true"),
           reason |-> IF acc = "true" THEN "" ELSE "judge",
           feedback |-> "judge", called |-> TRUE]

\* GeminiService.analyze_response_quality(text) when the generator would
\* answer with jr.  called: whether the generator was invoked.
analyze_response_quality(text, jr) ==
  IF TooShort(text)
  THEN [raised |-> FALSE, is_acceptable |-> FALSE, reason |-> "too_short",
        feedback |-> "too_short", called |-> FALSE]
  ELSE IF jr.kind = "raise"
  THEN [raised |-> TRUE, is_acceptable |-> TRUE, reason |-> "raised",
        feedback |-> "", called |-> TRUE]
  ELSE IF jr.kind = "none"
  THEN [raised |-> FALSE, is_acceptable |-> TRUE,
        reason |-> "gemini_unavailable", feedback |-> "accepted",
        called |-> TRUE]
  ELSE LET acc == ParseAcceptable(jr.lines, "unset")
       IN IF acc = "unset"
          THEN [raised |-> FALSE, is_acceptable |-> TRUE,
                reason |-> "parse_error", feedback |-> "accepted",
                called |-> TRUE]
          ELSE [raised |-> FALSE, is_acceptable |-> (acc = "true"),
                reason |-> IF acc = "true" THEN "" ELSE "judge",
                feedback |-> "judge", called |-> TRUE]

\* ----------------------------------------------------------------- state
VARIABLES
  groups,       \* groups table: g -> row
  users,        \* users table: u -> row
  jobs,         \* job store of the BackgroundScheduler
  hs,           \* telebot worker threads: h -> position and locals
  reply,        \* the answer the bot gives to a plan of a member in the
                \* step just taken (NoReply if it gives none), and for a
                \* rejection what the generator did as a judge
  withinHour,   \* g -> less than one hour has passed since the last start
  prompted,     \* g -> members the daily question went to at the last start
  dispatches,   \* g -> summary threads started since the last start
  timeoutRan,   \* g -> the timeout callback has run since the last start
  started,      \* g -> the start trigger of g has fired
  msgs,         \* number of messages and user API requests received
  clock,        \* the wall clock, in UTC: [dow, hour, minute], Monday = 0
  sent,         \* the daily questions handed to the transport in the step
                \* just taken: the members it took them for (ok) and the
                \* members it failed for (failed)
  report,       \* the message for the administrator handed to the
                \* transport in the step just taken (NoReport if none)
  rb            \* the threads that run start_scheduler for a request:
                \* r -> position and locals

vars == <<groups, users, jobs, hs, reply, withinHour, prompted, dispatches,
          timeoutRan, started, msgs, clock, sent, report, rb>>

\* ------------------------------------------------------------ the clock
\* hours a time zone is ahead of UTC
UtcOffset(tz) == IF tz = "Asia/Bishkek" THEN 6 ELSE 0

\* the moment c (UTC) as the clock of time zone tz shows it
LocalTime(c, tz) ==
  LET h == c.hour + UtcOffset(tz)
  IN [dow |-> (c.dow + (IF h >= 24 THEN 1 ELSE 0)) % 7,
      hour |-> h % 24,
      minute |-> c.minute]

\* the days of the week a cron trigger fires on when it is given hour and
\* minute only (day_of_week = '*')
EveryDay == 0..6

\* the cron trigger of job j is due at the moment c
cron_due(j, c) ==
  LET t == LocalTime(c, j.timezone)
  IN /\ j.trigger = "cron"
     /\ t.hour = j.hour
     /\ t.minute = j.minute
     /\ t.dow \in j.day_of_week

\* ----------------------------------------------------------- job store
\* scheduler.py:699-707: the cron job of a group; a cron trigger that is
\* given hour and minute only fires on every day of the week
MorningJob(g, row) ==
  [id |-> <<"morning_group", g>>, trigger |-> "cron",
   func |-> "send_morning_questions_to_group", args |-> <<g>>,
   hour |-> row.morning_hour, minute |-> row.morning_minute,
   timezone |-> row.timezone, day_of_week |-> EveryDay]

\* scheduler.py:124-129: the date job is created without args
SummaryJob(g) == [id |-> <<"summary_group", g>>, trigger |-> "date",
                  func |-> "generate_summary_after_timeout_for_group",
                  args |-> <<>>]

\* scheduler.py:720-727
LegacyJob == [id |-> <<"morning_questions_legacy", 0>>, trigger |-> "cron",
              func |-> "send_morning_questions", args |-> <<>>,
              hour |-> 9, minute |-> 30, timezone |-> "Asia/Bishkek",
              day_of_week |-> EveryDay]

HasJob(js, id) == \E j \in js : j.id = id

\* number of arguments the callback of a job needs (scheduler.py:53, 138,
\* 162)
Arity(func) ==
  CASE func = "send_morning_questions_to_group" -> 1
    [] func = "generate_summary_after_timeout_for_group" -> 1
    [] func = "send_morning_questions" -> 0

\* BackgroundScheduler.add_job without replace_existing.  The scheduler
\* refuses (ValueError) a job that does not supply the arguments of its
\* callback, and (ConflictingIdError) an id that is already in the store;
\* the callers catch the exception and the store is left as it was.
add_job(js, j) ==
  IF Len(j.args) # Arity(j.func) THEN js
  ELSE IF HasJob(js, j.id) THEN js
  ELSE js \cup {j}

remove_job(js, id) == {j \in js : j.id # id}

\* a variant of the rebuild that leaves the date jobs in the store
start_scheduler_keep_dates(js, gs) ==
  LET kept == {j \in js : j.id[1] \notin {"morning_questions",
                                           "morning_group"}}
      RECURSIVE AddAll(_, _)
      AddAll(acc, todo) ==
        IF todo = {} THEN acc
        ELSE LET g == CHOOSE x \in todo : TRUE
             IN AddAll(add_job(acc, MorningJob(g, gs[g])), todo \ {g})
      active_groups == {g \in Groups : gs[g].exists /\ gs[g].is_active}
      created == AddAll(kept, active_groups)
  IN IF active_groups = {} THEN add_job(created, LegacyJob) ELSE created

\* start_scheduler: drop the old jobs, one cron job per active group
start_scheduler(js, gs) ==
  LET kept == {j \in js : j.id[1] \notin {"morning_questions",
                                           "morning_group", "summary_group"}}
      RECURSIVE AddAll(_, _)
      AddAll(acc, todo) ==
        IF todo = {} THEN acc
        ELSE LET g == CHOOSE x \in todo : TRUE
             IN AddAll(add_job(acc, MorningJob(g, gs[g])), todo \ {g})
      active_groups == {g \in Groups : gs[g].exists /\ gs[g].is_active}
      created == AddAll(kept, active_groups)
  IN IF active_groups = {} THEN add_job(created, LegacyJob) ELSE created

\* ------------------------------------------------------------- queries
\* a variant of the query without the group filter
ActiveUsers_allgroups(us, g) ==
  {u \in Users : /\ us[u].is_active
                 /\ us[u].is_verified
                 /\ us[u].is_group_member}

\* a variant of the query without the is_verified filter
ActiveUsers_unverified(us, g) ==
  {u \in Users : /\ us[u].group_id = g
                 /\ us[u].is_active
                 /\ us[u].is_group_member}

\* the active, verified members of a group (scheduler.py:93-98, 190-195,
\* 507-512)
ActiveUsers(us, g) ==
  {u \in Users : /\ us[u].group_id = g
                 /\ us[u].is_active
                 /\ us[u].is_verified
                 /\ us[u].is_group_member}

\* a variant that takes every member as responded
Responded_everybody(us, S) == S

\* the members of S that have responded (scheduler.py:513)
Responded(us, S) == {u \in S : us[u].has_responded_today}

\* judge: what the generator did as a judge for the message the thread is
\* about to store ("skipped": it was not asked); seen: the number of summary
\* threads of the group that had been started when the thread stored the
\* answer
IdleHandler == [pc |-> "idle", user |-> 0, text |-> None,
                editing |-> FALSE, judge |-> "skipped", seen |-> 0]

\* bot.reply_to at the end of _process_daily_plan
reply_to(text, judge) == [text |-> text, judge |-> judge]

NoReply == reply_to("none", "skipped")

\* the threads a rebuild of the jobs runs on: 1 is the event loop, which
\* runs the endpoints of groups.py (async def) one after the other; 2 is
\* a thread of the pool, which runs the endpoints of users.py (def)
Rebuilders == {1, 2}

\* a thread that is not in start_scheduler
IdleRebuild == [pc |-> "idle", active_groups |-> <<>>,
                existing_jobs |-> <<>>, todo |-> <<>>]

\* no daily question and no report is handed to the transport
NoSent == [ok |-> {}, failed |-> {}]
NoReport == [kind |-> "none"]

\* a step that sends neither and in which no time passes
Aside ==
  /\ sent' = NoSent
  /\ report' = NoReport
  /\ clock' = clock

\* ------------------------------------------------------------------ Init
\* a row of the users table that has not taken part in a cycle yet
NewUser(g, verified, member) ==
  [group_id |-> g, is_active |-> TRUE,
   is_verified |-> verified, is_group_member |-> member,
   has_responded_today |-> FALSE, last_response |-> None,
   response_retry_count |-> 0, activation_token |-> NoToken]

\* the administrator of group g in a users table: the row of the group
\* that is not a group member (groups.py:176-191); 0 if the table has none
AdminIn(rows, g) ==
  LET adm == {u \in Users : rows[u].group_id = g /\ ~rows[u].is_group_member}
  IN IF adm = {} THEN 0 ELSE CHOOSE u \in adm : TRUE

\* a row of the groups table with the defaults of the columns
\* (group.py:62-68; days_of_week: migrations/add_groups_system.py:57)
NewGroup(admin) ==
  [exists |-> TRUE, is_active |-> TRUE, admin_username |-> admin,
   morning_hour |-> 17, morning_minute |-> 30, timezone |-> "Asia/Bishkek",
   days_of_week |-> {0, 1, 2, 3, 4}]

\* the application after start-up with the given users table, on a Friday
\* at 17:30 in Bishkek
Boot(rows) ==
  /\ groups = [g \in Groups |-> NewGroup(AdminIn(rows, g))]
  /\ users = rows
  /\ jobs = start_scheduler({}, [g \in Groups |-> NewGroup(AdminIn(rows, g))])
  /\ clock = [dow |-> 4, hour |-> 11, minute |-> 30]
  /\ sent = NoSent
  /\ report = NoReport
  /\ rb = [r \in Rebuilders |-> IdleRebuild]
  /\ hs = [h \in Handlers |-> IdleHandler]
  /\ reply = NoReply
  /\ withinHour = [g \in Groups |-> FALSE]
  /\ prompted = [g \in Groups |-> {}]
  /\ dispatches = [g \in Groups |-> <<>>]
  /\ timeoutRan = [g \in Groups |-> FALSE]
  /\ started = [g \in Groups |-> FALSE]
  /\ msgs = 0

Init == Boot([u \in Users |-> NewUser(GroupOf(u), Verified(u), TRUE)])

\* user 2 is the activated administrator of group 1 (bot_service.py:198-203:
\* verified, active, not a group member); user 1 is the only member
InitAdmin ==
  Boot([u \in Users |-> NewUser(GroupOf(u), Verified(u), u # 2)])

\* --------------------------------------------------------------- helpers
SetUser(us, u, f, v) == [us EXCEPT ![u] = [@ EXCEPT ![f] = v]]

\* a variant in which the caller runs the summary itself and returns when
\* it is done
run_inline(g, kind, us) ==
  [kind |-> kind, users |-> us,
   rows |-> [u \in us |-> [has_responded_today |-> users[u].has_responded_today,
                           last_response |-> users[u].last_response]],
   admin_username |-> groups[g].admin_username,
   done |-> TRUE]

\* threading.Thread(target=generate_and_send_summary_for_group,
\* args=(group, users), daemon=True).start(): the thread gets the group and
\* the rows as the caller has loaded them and is running when the caller
\* goes on (scheduler.py:208-212, 528-532)
spawn(g, kind, us) ==
  [kind |-> kind, users |-> us,
   rows |-> [u \in us |-> [has_responded_today |-> users[u].has_responded_today,
                           last_response |-> users[u].last_response]],
   admin_username |-> groups[g].admin_username,
   done |-> FALSE]

\* generate_and_send_summary_for_group(group, users) is started on its own
\* thread
StartDispatch(ds, g, kind, us) ==
  [ds EXCEPT ![g] = Append(@, spawn(g, kind, us))]

\* ------------------------------------------------ the start of a cycle
\* a variant of the daily reset that keeps the retry counter
reset_row_keep_retry(row) ==
  [row EXCEPT !.has_responded_today = FALSE, !.last_response = None]

\* the daily reset of a row (scheduler.py:85-89)
reset_row(row) ==
  [row EXCEPT !.has_responded_today = FALSE,
              !.last_response = None,
              !.response_retry_count = 0]

\* a variant of the lookup that takes any group
find_group_any(gs, g) == TRUE

\* db.query(Group).filter(Group.id == group_id, Group.is_active == True)
\* finds a row (scheduler.py:79, 184)
find_active_group(gs, g) == gs[g].exists /\ gs[g].is_active

\* the loop over the members (scheduler.py:107-118): a delivery that
\* raises is logged and the loop goes on; fail: the members bot.send_message
\* raises for
fan_out(active_users, fail) ==
  [ok |-> active_users \ fail, failed |-> active_users \cap fail]

\* send_morning_questions_to_group(g), run by the cron job of the group
send_morning_questions_to_group(g, fail) ==
  IF ~find_active_group(groups, g)
  THEN /\ UNCHANGED <<users, jobs, prompted, dispatches, timeoutRan>>
       /\ sent' = NoSent
  ELSE
    LET reset == [u \in Users |->
                    IF users[u].group_id = g
                    THEN reset_row(users[u])
                    ELSE users[u]]
        active_users == ActiveUsers(reset, g)
    IN /\ users' = reset
       /\ dispatches' = [dispatches EXCEPT ![g] = <<>>]
       /\ timeoutRan' = [timeoutRan EXCEPT ![g] = FALSE]
       /\ prompted' = [prompted EXCEPT ![g] = active_users]
       /\ sent' = fan_out(active_users, fail)
       /\ jobs' = IF active_users = {}
                  THEN jobs
                  ELSE add_job(jobs, SummaryJob(g))

\* the cron trigger of group g fires (at most once a day, so not within
\* the hour that follows the previous firing); fail: the members the
\* delivery of the question fails for
CronFire(g, fail) ==
  /\ ~withinHour[g]
  /\ \E j \in jobs : j.id = <<"morning_group", g>> /\ cron_due(j, clock)
  /\ fail \subseteq ActiveUsers(users, g)
  /\ started' = [started EXCEPT ![g] = TRUE]
  /\ withinHour' = [withinHour EXCEPT ![g] = TRUE]
  /\ send_morning_questions_to_group(g, fail)
  /\ reply' = NoReply
  /\ report' = NoReport
  /\ UNCHANGED <<rb, groups, hs, msgs, clock>>

\* generate_summary_after_timeout_for_group(g)
generate_summary_after_timeout_for_group(g) ==
  IF find_active_group(groups, g) /\ ActiveUsers(users, g) # {}
  THEN StartDispatch(dispatches, g, "timeout", ActiveUsers(users, g))
  ELSE dispatches

\* the scheduler runs a date job: func(*args)
RunSummaryJob(j) == generate_summary_after_timeout_for_group(j.args[1])

\* one hour has passed since the start of group g: a date job of the
\* group that is still in the store is due, runs once and is dropped
HourPasses(g) ==
  /\ withinHour[g]
  /\ withinHour' = [withinHour EXCEPT ![g] = FALSE]
  /\ IF HasJob(jobs, <<"summary_group", g>>)
     THEN LET j == CHOOSE x \in jobs : x.id = <<"summary_group", g>>
          IN /\ dispatches' = RunSummaryJob(j)
             /\ jobs' = remove_job(jobs, j.id)
             /\ timeoutRan' = [timeoutRan EXCEPT ![g] = TRUE]
     ELSE UNCHANGED <<dispatches, jobs, timeoutRan>>
  /\ reply' = NoReply
  /\ Aside
  /\ UNCHANGED <<rb, groups, users, hs, prompted, started, msgs>>

\* ------------------------------------------------------ member messages
\* a variant of the branch that does not look at the edit flag
plan_branch_noedit(row) ==
  IF row.has_responded_today /\ row.response_retry_count = 0
  THEN [pc |-> "already", editing |-> FALSE]
  ELSE IF row.response_retry_count < MaxRetries
  THEN [pc |-> "judge", editing |-> FALSE]
  ELSE [pc |-> "store", editing |-> FALSE]

\* the branch _process_daily_plan takes on the row it was handed
\* (bot_service.py:551-553, 592, 612)
plan_branch(row) ==
  IF row.activation_token = EditingMode
  THEN [pc |-> "store", editing |-> TRUE]
  ELSE IF row.has_responded_today /\ row.response_retry_count = 0
  THEN [pc |-> "already", editing |-> FALSE]
  ELSE IF row.response_retry_count < MaxRetries
  THEN [pc |-> "judge", editing |-> FALSE]
  ELSE [pc |-> "store", editing |-> FALSE]

\* handle_user_message_sync up to the call of _process_daily_plan, and the
\* branch _process_daily_plan takes on the row it was handed
Receive(h, u, t) ==
  /\ hs[h].pc = "idle"
  /\ \A h2 \in Handlers : h2 < h => hs[h2].pc # "idle"
  /\ msgs < MaxMsgs
  /\ msgs' = msgs + 1
  /\ LET row == users[u]
         base == [IdleHandler EXCEPT !.user = u, !.text = t]
     IN IF ~row.is_verified \/ ~row.is_active
        THEN hs' = hs
        ELSE hs' = [hs EXCEPT ![h] =
               [base EXCEPT !.pc = plan_branch(row).pc,
                            !.editing = plan_branch(row).editing]]
  /\ reply' = NoReply
  /\ Aside
  /\ UNCHANGED <<rb, groups, users, jobs, withinHour, prompted, dispatches,
                 timeoutRan, started>>

\* bot_service.py:592-609: the plan is already recorded
Already(h) ==
  /\ hs[h].pc = "already"
  /\ users' = SetUser(users, hs[h].user, "response_retry_count",
                      users[hs[h].user].response_retry_count + 1)
  /\ hs' = [hs EXCEPT ![h] = IdleHandler]
  /\ reply' = reply_to("already_recorded", "skipped")
  /\ Aside
  /\ UNCHANGED <<rb, groups, jobs, withinHour, prompted, dispatches,
                 timeoutRan, started, msgs>>

\* a variant of the rejection that also withdraws the recorded plan
count_attempt_withdraw(row) ==
  [row EXCEPT !.response_retry_count = @ + 1,
              !.has_responded_today = FALSE]

\* the row after a rejection (bot_service.py:621-626)
count_attempt(row) == [row EXCEPT !.response_retry_count = @ + 1]

\* a variant of the store that only marks the member as responded
store_flag_only(row, text) == [row EXCEPT !.has_responded_today = TRUE]

\* the row after the answer has been stored (scheduler.py:460-461)
store_response(row, text) ==
  [row EXCEPT !.has_responded_today = TRUE, !.last_response = text]

\* bot_service.py:611-649: the quality analysis and, on a rejection, the
\* increment of the counter of the row as it is now
Judge(h, jr) ==
  /\ hs[h].pc = "judge"
  /\ LET analysis == analyze_response_quality(hs[h].text, jr)
         u == hs[h].user
         asked == IF analysis.called THEN JudgeClass(jr) ELSE "skipped"
     IN IF analysis.raised \/ analysis.is_acceptable
        THEN /\ hs' = [hs EXCEPT ![h].pc = "store", ![h].judge = asked]
             /\ users' = users
             /\ reply' = NoReply
        ELSE /\ users' = [users EXCEPT ![u] = count_attempt(@)]
             /\ hs' = [hs EXCEPT ![h] = IdleHandler]
             /\ reply' = reply_to(analysis.feedback, asked)
  /\ Aside
  /\ UNCHANGED <<rb, groups, jobs, withinHour, prompted, dispatches,
                 timeoutRan, started, msgs>>

\* process_user_response, scheduler.py:458-488: the answer is stored
Store(h) ==
  /\ hs[h].pc = "store"
  /\ users' = [users EXCEPT ![hs[h].user] = store_response(@, hs[h].text)]
  /\ hs' = [hs EXCEPT ![h].pc = "check",
                      ![h].judge = "skipped",
                      ![h].seen = Len(dispatches[users[hs[h].user].group_id])]
  /\ reply' = NoReply
  /\ Aside
  /\ UNCHANGED <<rb, groups, jobs, withinHour, prompted, dispatches,
                 timeoutRan, started, msgs>>

\* a variant of the test that needs more than two members
all_responded_large(active, responded) ==
  /\ Cardinality(responded) = Cardinality(active)
  /\ Cardinality(active) > 2

\* scheduler.py:515: everybody in the group has answered
all_responded(active, responded) ==
  /\ Cardinality(responded) = Cardinality(active)
  /\ Cardinality(active) > 0

\* a variant in which the completion query runs on the rows as they were
\* before the thread committed the answer of u
before_commit(us, u) ==
  [us EXCEPT ![u].has_responded_today = FALSE]

\* the rows the completion query of a thread reads: db.commit() of the
\* answer of u (scheduler.py:488) comes before the query (507-512) in the
\* same session, so the query reads the table with that answer in it
after_commit(us, u) == us

\* process_user_response, scheduler.py:500-535: have all members of the
\* group answered; then back in _process_daily_plan (bot_service.py:564-583
\* for an edit, 655-675 for a plan) the counter is set to zero, the edit
\* flag is cleared after an edit and the member is answered
Check(h) ==
  /\ hs[h].pc = "check"
  /\ LET u == hs[h].user
         g == users[u].group_id
         active_users_in_group == ActiveUsers(users, g)
         responded_users_in_group ==
           Responded(after_commit(users, u), active_users_in_group)
     IN /\ IF all_responded(active_users_in_group, responded_users_in_group)
           THEN /\ jobs' = remove_job(jobs, <<"summary_group", g>>)
                /\ dispatches' = StartDispatch(dispatches, g, "early",
                                                active_users_in_group)
           ELSE UNCHANGED <<jobs, dispatches>>
        /\ users' = [users EXCEPT ![u] =
                       IF hs[h].editing
                       THEN [@ EXCEPT !.activation_token = NoToken,
                                      !.response_retry_count = 0]
                       ELSE [@ EXCEPT !.response_retry_count = 0]]
        /\ reply' = reply_to(IF hs[h].editing THEN "changed"
                             ELSE "accepted", "skipped")
  /\ hs' = [hs EXCEPT ![h] = IdleHandler]
  /\ Aside
  /\ UNCHANGED <<rb, groups, withinHour, prompted, timeoutRan, started, msgs>>

\* handle_change_command, bot_service.py:474-475: is there a plan to edit
has_plan(row) == row.has_responded_today /\ row.last_response # None

\* handle_change_command, bot_service.py:436-515
Change(h, u) ==
  /\ hs[h].pc = "idle"
  /\ \A h2 \in Handlers : h2 < h => hs[h2].pc # "idle"
  /\ msgs < MaxMsgs
  /\ msgs' = msgs + 1
  /\ LET row == users[u]
     IN IF ~row.is_verified \/ ~row.is_active
        THEN users' = users
        ELSE IF ~has_plan(row)
        THEN users' = users
        ELSE users' = SetUser(users, u, "activation_token", EditingMode)
  /\ reply' = NoReply
  /\ Aside
  /\ UNCHANGED <<rb, groups, jobs, hs, withinHour, prompted, dispatches,
                 timeoutRan, started>>

\* PUT /users/{id} (users.py:185-247) with one flag of the row
update_user(u, f, v) ==
  /\ msgs < MaxMsgs
  /\ msgs' = msgs + 1
  /\ users' = SetUser(users, u, f, v)
  /\ reply' = NoReply
  /\ Aside
  /\ UNCHANGED <<rb, groups, jobs, hs, withinHour, prompted, dispatches,
                 timeoutRan, started>>

\* ------------------------------------------------------------------ Next
\* the steps of the collection of a day; the deliveries of the daily
\* question succeed (failing deliveries are followed in SpecRegistry)
Next ==
  \/ \E g \in Groups : CronFire(g, {})
  \/ \E g \in Groups : HourPasses(g)
  \/ \E h \in Handlers, u \in Users, t \in Texts : Receive(h, u, t)
  \/ \E h \in Handlers : Already(h)
  \/ \E h \in Handlers, jr \in JudgeOutcomes : Judge(h, jr)
  \/ \E h \in Handlers : Store(h)
  \/ \E h \in Handlers : Check(h)
  \/ \E h \in Handlers, u \in Users : Change(h, u)

Spec == Init /\ [][Next]_vars

SpecAdmin == InitAdmin /\ [][Next]_vars

\* user 1 is the member of group 1, user 2 the member of group 2, user 3 a
\* user of group 2 who is not verified yet
InitTwoGroups ==
  Boot([u \in Users |-> NewUser(IF u = 1 THEN 1 ELSE 2, u # 3, TRUE)])

SpecTwoGroups == InitTwoGroups /\ [][Next]_vars

\* the administrator changes the flags of users while cycles run
NextRoster ==
  \/ Next
  \/ \E u \in Users, f \in {"is_active", "is_verified", "is_group_member"},
        v \in BOOLEAN : update_user(u, f, v)

SpecRoster == Init /\ [][NextRoster]_vars

\* ------------------------------------------- the administration of groups
\* no row: the row of a user that has been deleted
NoUser == NewUser(0, FALSE, FALSE)

\* no row: the row of a group that has been deleted
NoGroup == [NewGroup(0) EXCEPT !.exists = FALSE, !.is_active = FALSE]

\* schedules an administrator gives a group: hour, minute and time zone
Schedules ==
  { [morning_hour |-> 17, morning_minute |-> 30, timezone |-> "Asia/Bishkek"],
    [morning_hour |-> 10, morning_minute |-> 0, timezone |-> "UTC"] }

\* the moments the clock is followed at: Friday and Saturday at 03:30
\* (09:30 in Bishkek), 10:00 and 11:30 (17:30 in Bishkek) UTC
Moments ==
  { [dow |-> d, hour |-> t[1], minute |-> t[2]] :
      d \in {4, 5}, t \in {<<3, 30>>, <<10, 0>>, <<11, 30>>} }

\* PUT /groups/{id} (groups.py:207-307) with one field: the row is written
\* and the job store is left as it is
update_group(g, f, v) ==
  /\ groups[g].exists
  /\ groups' = [groups EXCEPT ![g] = [@ EXCEPT ![f] = v]]
  /\ reply' = NoReply
  /\ Aside
  /\ UNCHANGED <<rb, users, jobs, hs, withinHour, prompted, dispatches,
                 timeoutRan, started, msgs>>

\* PUT /groups/{id}/schedule (groups.py:524-591): hour, minute and time
\* zone are written (days_of_week is not a column of the model class, the
\* assignment at 573 is not stored) and start_scheduler is called
update_group_schedule(g, sch) ==
  /\ groups[g].exists
  /\ groups' = [groups EXCEPT ![g] =
                  [@ EXCEPT !.morning_hour = sch.morning_hour,
                            !.morning_minute = sch.morning_minute,
                            !.timezone = sch.timezone]]
  /\ jobs' = start_scheduler(jobs, groups')
  /\ reply' = NoReply
  /\ Aside
  /\ UNCHANGED <<rb, users, hs, withinHour, prompted, dispatches, timeoutRan,
                 started, msgs>>

\* DELETE /groups/{id} (groups.py:310-347): the rows of the users of the
\* group and the row of the group are deleted; the job store is left as
\* it is
delete_group(g) ==
  /\ groups[g].exists
  /\ groups' = [groups EXCEPT ![g] = NoGroup]
  /\ users' = [u \in Users |->
                 IF users[u].group_id = g THEN NoUser ELSE users[u]]
  /\ reply' = NoReply
  /\ Aside
  /\ UNCHANGED <<rb, jobs, hs, withinHour, prompted, dispatches, timeoutRan,
                 started, msgs>>

\* POST /users/scheduler/restart (users.py:416-439)
restart_scheduler ==
  /\ jobs' = start_scheduler(jobs, groups)
  /\ reply' = NoReply
  /\ Aside
  /\ UNCHANGED <<rb, groups, users, hs, withinHour, prompted, dispatches,
                 timeoutRan, started, msgs>>

\* time passes to another moment
Tick(c) ==
  /\ c # clock
  /\ clock' = c
  /\ reply' = NoReply
  /\ sent' = NoSent
  /\ report' = NoReport
  /\ UNCHANGED <<rb, groups, users, jobs, hs, withinHour, prompted, dispatches,
                 timeoutRan, started, msgs>>

\* the date jobs send_morning_questions_to_group submits for the groups of
\* a set, one after the other
RECURSIVE AddSummaryJobs(_, _)
AddSummaryJobs(js, todo) ==
  IF todo = {} THEN js
  ELSE LET g == CHOOSE x \in todo : TRUE
       IN AddSummaryJobs(add_job(js, SummaryJob(g)), todo \ {g})

\* the legacy cron job fires: send_morning_questions (scheduler.py:138-160)
\* calls send_morning_questions_to_group for every active group
LegacyFire ==
  LET active_groups == {g \in Groups : find_active_group(groups, g)}
      reset == [u \in Users |->
                  IF users[u].group_id \in active_groups
                  THEN reset_row(users[u])
                  ELSE users[u]]
      asked == {g \in active_groups : ActiveUsers(reset, g) # {}}
  IN /\ \E j \in jobs : j.id = LegacyJob.id /\ cron_due(j, clock)
     /\ \A g \in active_groups : ~withinHour[g]
     /\ users' = reset
     /\ started' = [g \in Groups |-> started[g] \/ g \in active_groups]
     /\ withinHour' = [g \in Groups |->
                         withinHour[g] \/ g \in active_groups]
     /\ dispatches' = [g \in Groups |->
                         IF g \in active_groups THEN <<>> ELSE dispatches[g]]
     /\ timeoutRan' = [g \in Groups |->
                         IF g \in active_groups THEN FALSE ELSE timeoutRan[g]]
     /\ prompted' = [g \in Groups |->
                       IF g \in active_groups THEN ActiveUsers(reset, g)
                       ELSE prompted[g]]
     /\ jobs' = AddSummaryJobs(jobs, asked)
     /\ sent' = [ok |-> UNION {ActiveUsers(reset, g) : g \in active_groups},
                 failed |-> {}]
     /\ reply' = NoReply
     /\ report' = NoReport
     /\ UNCHANGED <<rb, groups, hs, msgs, clock>>

\* the administrator changes groups and schedules and time passes; no
\* member writes
NextRegistry ==
  \/ \E g \in Groups, fail \in SUBSET Users : CronFire(g, fail)
  \/ LegacyFire
  \/ \E g \in Groups : HourPasses(g)
  \/ \E c \in Moments : Tick(c)
  \/ \E g \in Groups, v \in BOOLEAN : update_group(g, "is_active", v)
  \/ \E g \in Groups, v \in {10, 17} : update_group(g, "morning_hour", v)
  \/ \E g \in Groups, sch \in Schedules : update_group_schedule(g, sch)
  \/ \E g \in Groups : delete_group(g)
  \/ restart_scheduler

\* a member that answered on the day before the application was started
Answered(row, t) ==
  [row EXCEPT !.has_responded_today = TRUE, !.last_response = t]

\* the application is started with a users table in which the members of
\* group 1 have no answer yet or have the answer of the day before
InitRegistry ==
  \E a \in {{}, {1, 2}} :
    Boot([u \in Users |->
            IF u \in a
            THEN Answered(NewUser(GroupOf(u), Verified(u), TRUE),
                          <<"p", "l", "a", "n", "A">>)
            ELSE NewUser(GroupOf(u), Verified(u), TRUE)])

SpecRegistry == InitRegistry /\ [][NextRegistry]_vars

\* ---------------------------------------------------- the summary thread
\* the most summary threads of a group followed between two starts
MaxThreads == 2

\* what gemini_service.generate_text_async gives back: a summary, an empty
\* text, or None when the service is unavailable (gemini_service.py:66-112:
\* any exception and a time-out of the request end in None)
Summaries == {"text", "blank", "none"}

\* a row list in the order in which the query gives the rows
RECURSIVE by_id(_)
by_id(S) ==
  IF S = {}
  THEN <<>>
  ELSE LET m == CHOOSE x \in S : \A y \in S : x <= y
       IN <<m>> \o by_id(S \ {m})

\* the chat of the administrator a: admin_user.user_id, which the row gets
\* when the administrator follows the activation link
\* (bot_service.py:198-203); 0 if there is no such row or it has none
chat_of(us, a) == IF a = 0 \/ ~us[a].is_verified THEN 0 ELSE a

\* a variant of the loop body that lists every member as not responded
tally_all_pending(acc, u, row) ==
  IF row.has_responded_today /\ row.last_response # None
  THEN [acc EXCEPT !.responses = Append(@, <<u, row.last_response>>),
                   !.responded_users = Append(@, u),
                   !.not_responded_users = Append(@, u)]
  ELSE [acc EXCEPT !.not_responded_users = Append(@, u)]

\* the body of the loop over the members (scheduler.py:295-300)
tally(acc, u, row) ==
  IF row.has_responded_today /\ row.last_response # None
  THEN [acc EXCEPT !.responses = Append(@, <<u, row.last_response>>),
                   !.responded_users = Append(@, u)]
  ELSE [acc EXCEPT !.not_responded_users = Append(@, u)]

\* the loop over the members (scheduler.py:283-300)
RECURSIVE collect(_, _, _)
collect(list, rows, acc) ==
  IF list = <<>>
  THEN acc
  ELSE collect(Tail(list), rows, tally(acc, Head(list), rows[Head(list)]))

\* the prompt for the summarizer (scheduler.py:307-324)
prompt_of(acc) ==
  [responses |-> acc.responses, not_responded |-> acc.not_responded_users]

\* a variant of the basic report without the members that did not respond
basic_summary_short(acc) ==
  [kind |-> "fallback", responses |-> acc.responses, not_responded |-> <<>>]

\* the basic report (scheduler.py:342-353)
basic_summary(acc) ==
  [kind |-> "fallback", responses |-> acc.responses,
   not_responded |-> acc.not_responded_users]

\* generate_and_send_summary_for_group(group, users) up to
\* bot.send_message: the message it hands to the transport, NoReport if it
\* returns before; d: the thread with its arguments, out: what the
\* summarizer gives back
generate_and_send_summary_for_group(d, g, out) ==
  LET admin == chat_of(users, d.admin_username)
      list == by_id(d.users)
      acc == collect(list, d.rows,
                     [responses |-> <<>>, responded_users |-> <<>>,
                      not_responded_users |-> <<>>])
  IN IF d.admin_username = 0 \/ admin = 0
     THEN NoReport
     ELSE IF acc.responses = <<>> /\ acc.not_responded_users = <<>>
     THEN NoReport
     ELSE [kind |-> "report", to |-> admin, group |-> g,
           date |-> clock.dow, asked |-> out,
           participants |-> Len(list),
           responded |-> Len(acc.responded_users),
           not_responded |-> Len(acc.not_responded_users),
           summary |-> IF out = "text"
                       THEN [kind |-> "generated", prompt |-> prompt_of(acc)]
                       ELSE basic_summary(acc)]

\* the summary thread i of group g gets the answer of the summarizer and
\* ends
FinishSummary(g, i, out) ==
  /\ i \in DOMAIN dispatches[g]
  /\ ~dispatches[g][i].done
  /\ dispatches' = [dispatches EXCEPT ![g][i].done = TRUE]
  /\ report' = generate_and_send_summary_for_group(dispatches[g][i], g, out)
  /\ sent' = NoSent
  /\ reply' = NoReply
  /\ UNCHANGED <<rb, groups, users, jobs, hs, withinHour, prompted, timeoutRan,
                 started, msgs, clock>>

\* generate_summary_after_timeout_for_group(g) is run
TimeoutRuns(g) ==
  /\ Len(dispatches[g]) < MaxThreads
  /\ dispatches' = generate_summary_after_timeout_for_group(g)
  /\ timeoutRan' = [timeoutRan EXCEPT ![g] = TRUE]
  /\ reply' = NoReply
  /\ Aside
  /\ UNCHANGED <<rb, groups, users, jobs, hs, withinHour, prompted, started,
                 msgs>>

\* the completion check of process_user_response is run for group g after
\* an answer has been stored (scheduler.py:505-532)
CheckRuns(g) ==
  LET active_users_in_group == ActiveUsers(users, g)
      responded_users_in_group == Responded(users, active_users_in_group)
  IN /\ Len(dispatches[g]) < MaxThreads
     /\ groups[g].exists
     /\ all_responded(active_users_in_group, responded_users_in_group)
     /\ dispatches' = StartDispatch(dispatches, g, "early",
                                    active_users_in_group)
     /\ jobs' = remove_job(jobs, <<"summary_group", g>>)
     /\ reply' = NoReply
     /\ Aside
     /\ UNCHANGED <<rb, groups, users, hs, withinHour, prompted, timeoutRan,
                    started, msgs>>

\* summaries are started and end; the tables do not change
NextReport ==
  \/ \E g \in Groups : TimeoutRuns(g)
  \/ \E g \in Groups : CheckRuns(g)
  \/ \E g \in Groups, i \in 1..MaxThreads, out \in Summaries :
       FinishSummary(g, i, out)

\* the users tables the summaries are followed for: each member of group 1
\* has an accepted answer or none, and user 3 is the activated
\* administrator of group 1, its administrator that has not followed the
\* activation link yet, or a member of group 2
InitReport ==
  \E t1, t2 \in {None, <<"p", "l", "a", "n", "A">>,
                 <<"p", "l", "a", "n", "B">>},
     adm \in {"active", "pending", "absent"} :
    LET member(t) == IF t = None
                     THEN NewUser(1, TRUE, TRUE)
                     ELSE Answered(NewUser(1, TRUE, TRUE), t)
    IN Boot([u \in Users |->
               IF u = 1 THEN member(t1)
               ELSE IF u = 2 THEN member(t2)
               ELSE IF adm = "absent" THEN NewUser(2, FALSE, TRUE)
               ELSE NewUser(1, adm = "active", FALSE)])

SpecReport == InitReport /\ [][NextReport]_vars

\* ------------------------------------------- a rebuild during a cycle
\* the date job of a cycle as send_morning_questions_to_group means it:
\* generate_summary_after_timeout_for_group(group_id) one hour after the
\* start (scheduler.py:122-129)
PendingTimeout(g) == [SummaryJob(g) EXCEPT !.args = <<g>>]

\* job stores start_scheduler is applied to: the cycle of group 1 has been
\* started with both members, none has answered, and the date job of the
\* cycle is in the store; group 1 has one of the schedules
InitStore ==
  \E sch \in Schedules :
    LET rows == [u \in Users |-> NewUser(GroupOf(u), Verified(u), TRUE)]
        gs == [g \in Groups |->
                 IF g = 1
                 THEN [NewGroup(0) EXCEPT
                         !.morning_hour = sch.morning_hour,
                         !.morning_minute = sch.morning_minute,
                         !.timezone = sch.timezone]
                 ELSE NewGroup(0)]
    IN /\ groups = gs
       /\ users = rows
       /\ jobs = start_scheduler({}, gs) \cup {PendingTimeout(1)}
       /\ clock = [dow |-> 4, hour |-> 11, minute |-> 30]
       /\ sent = NoSent
       /\ report = NoReport
       /\ rb = [r \in Rebuilders |-> IdleRebuild]
       /\ hs = [h \in Handlers |-> IdleHandler]
       /\ reply = NoReply
       /\ withinHour = [g \in Groups |-> g = 1]
       /\ prompted = [g \in Groups |-> IF g = 1 THEN {1, 2} ELSE {}]
       /\ dispatches = [g \in Groups |-> <<>>]
       /\ timeoutRan = [g \in Groups |-> FALSE]
       /\ started = [g \in Groups |-> g = 1]
       /\ msgs = 0

\* the administrator changes groups and has the jobs rebuilt while the
\* cycle is open, and the hour of the cycle passes
NextStore ==
  \/ restart_scheduler
  \/ \E g \in Groups, sch \in Schedules : update_group_schedule(g, sch)
  \/ \E g \in Groups, v \in BOOLEAN : update_group(g, "is_active", v)
  \/ \E g \in Groups : HourPasses(g)

SpecStore == InitStore /\ [][NextStore]_vars

\* ------------------------------------------------------- the reminder
\* a variant of the query that also takes the members that have responded
RepeatTargets_all(us) ==
  {u \in Users : /\ us[u].is_active
                 /\ us[u].is_verified
                 /\ us[u].is_group_member}

\* the query of send_repeat_questions (scheduler.py:572-577): the active,
\* verified group members of all groups that have not responded
RepeatTargets(us) ==
  {u \in Users : /\ us[u].is_active
                 /\ us[u].is_verified
                 /\ us[u].is_group_member
                 /\ ~us[u].has_responded_today}

\* POST /users/send-repeat-questions (users.py:307-340) calls
\* send_repeat_questions (scheduler.py:550-616): the reminder goes to the
\* members the query gives, a delivery that raises is noted and the loop
\* goes on; nothing is written; fail: the members bot.send_message raises
\* for
send_repeat_questions(fail) ==
  /\ fail \subseteq RepeatTargets(users)
  /\ sent' = fan_out(RepeatTargets(users), fail)
  /\ reply' = NoReply
  /\ report' = NoReport
  /\ UNCHANGED <<rb, groups, users, jobs, hs, withinHour, prompted, dispatches,
                 timeoutRan, started, msgs, clock>>

\* the administrator sends reminders and changes flags of users
NextRepeat ==
  \/ \E fail \in SUBSET Users : send_repeat_questions(fail)
  \/ \E u \in Users, f \in {"is_active", "is_verified", "is_group_member"},
        v \in BOOLEAN : update_user(u, f, v)

\* the cycle of group 1 is open and some of its members have an accepted
\* plan, one of them with a rejected later text
InitRepeat ==
  \E a \in SUBSET {1, 2} :
    LET rows == [u \in Users |->
                   IF u \in a
                   THEN [Answered(NewUser(GroupOf(u), Verified(u), TRUE),
                                  <<"p", "l", "a", "n", "A">>)
                           EXCEPT !.response_retry_count = u - 1,
                                  !.activation_token =
                                     IF u = 2 THEN EditingMode ELSE NoToken]
                   ELSE NewUser(GroupOf(u), Verified(u), TRUE)]
        gs == [g \in Groups |-> NewGroup(0)]
    IN /\ groups = gs
       /\ users = rows
       /\ jobs = start_scheduler({}, gs)
       /\ clock = [dow |-> 4, hour |-> 11, minute |-> 30]
       /\ sent = NoSent
       /\ report = NoReport
       /\ rb = [r \in Rebuilders |-> IdleRebuild]
       /\ hs = [h \in Handlers |-> IdleHandler]
       /\ reply = NoReply
       /\ withinHour = [g \in Groups |-> g = 1]
       /\ prompted = [g \in Groups |-> IF g = 1 THEN {1, 2} ELSE {}]
       /\ dispatches = [g \in Groups |-> <<>>]
       /\ timeoutRan = [g \in Groups |-> FALSE]
       /\ started = [g \in Groups |-> g = 1]
       /\ msgs = 0

SpecRepeat == InitRepeat /\ [][NextRepeat]_vars

\* ------------------------------------------------ sending the report
\* the most parts of a report that are followed
MaxParts == 3

\* scheduler.py:366: the most characters of a message
ChunkLimit == 4000

\* the lengths of admin_message that are followed: at most 2 * MaxParts
\* characters from a multiple of the limit
Lengths ==
  {n \in 1..(MaxParts * ChunkLimit + 2 * MaxParts) :
     \E k \in 0..MaxParts :
       /\ n - k * ChunkLimit <= 2 * MaxParts
       /\ k * ChunkLimit - n <= 2 * MaxParts}

\* a variant of the slicing that starts each part one character late
RECURSIVE parts_skip(_, _)
parts_skip(len, i) ==
  IF i >= len
  THEN <<>>
  ELSE <<[first |-> i + 1,
          last |-> IF i + ChunkLimit < len THEN i + ChunkLimit ELSE len]>>
       \o parts_skip(len, i + ChunkLimit + 1)

\* [admin_message[i:i+4000] for i in range(0, len(admin_message), 4000)]
\* from offset i on (scheduler.py:367): a part is given by the positions
\* of its first and last character in admin_message
RECURSIVE parts(_, _)
parts(len, i) ==
  IF i >= len
  THEN <<>>
  ELSE <<[first |-> i + 1,
          last |-> IF i + ChunkLimit < len THEN i + ChunkLimit ELSE len]>>
       \o parts(len, i + ChunkLimit)

\* the messages bot.send_message is called with for an admin_message of
\* len characters (scheduler.py:364-374): one message, or the parts, of
\* which all but the first are headed as the continuation with their
\* number; raises: the number of the call that raises (0: none), which
\* ends the sending (scheduler.py:379-381)
send_report(len, raises) ==
  LET all == IF len > ChunkLimit
             THEN [k \in DOMAIN parts(len, 0) |->
                     [first |-> parts(len, 0)[k].first,
                      last |-> parts(len, 0)[k].last,
                      continuation |-> IF k = 1 THEN 0 ELSE k]]
             ELSE <<[first |-> 1, last |-> len, continuation |-> 0]>>
  IN IF raises = 0 \/ raises > Len(all)
     THEN [handed |-> all, raised |-> FALSE]
     ELSE [handed |-> SubSeq(all, 1, raises), raised |-> TRUE]

\* the summary thread of group g sends an admin_message of len characters
SendReport(g, len, raises) ==
  /\ chat_of(users, groups[g].admin_username) # 0
  /\ report' = [kind |-> "report",
                to |-> chat_of(users, groups[g].admin_username),
                group |-> g, length |-> len,
                handed |-> send_report(len, raises).handed,
                raised |-> send_report(len, raises).raised]
  /\ sent' = NoSent
  /\ reply' = NoReply
  /\ UNCHANGED <<rb, groups, users, jobs, hs, withinHour, prompted, dispatches,
                 timeoutRan, started, msgs, clock>>

\* reports of the lengths followed are sent; a call of the transport may
\* raise
NextChunks ==
  \E g \in Groups, len \in Lengths, raises \in 0..(MaxParts + 1) :
    SendReport(g, len, raises)

\* user 3 is the activated administrator of group 1
InitChunks ==
  Boot([u \in Users |->
          IF u = 3 THEN NewUser(1, TRUE, FALSE)
          ELSE NewUser(GroupOf(u), Verified(u), TRUE)])

SpecChunks == InitChunks /\ [][NextChunks]_vars

\* ------------------------------------------- start_scheduler in steps
\* minutes from the moment c to the next run of a job: a cron job runs
\* next at its hour and minute in its time zone, a date job one hour after
\* the start that made it
until(j, c) ==
  IF j.trigger = "date"
  THEN 60
  ELSE LET fire == (j.hour * 60 + j.minute
                    + 1440 - UtcOffset(j.timezone) * 60) % 1440
           d == (fire + 1440 - (c.hour * 60 + c.minute)) % 1440
       IN IF d = 0 THEN 1440 ELSE d

\* the place of a job id among the ids as strings: 'morning_group_<g>',
\* 'morning_questions_legacy', 'summary_group_<g>_after_1hour'
id_rank(id) ==
  IF id[1] = "morning_group" THEN id[2]
  ELSE IF id[1] = "morning_questions_legacy" THEN Cardinality(Groups) + 1
  ELSE Cardinality(Groups) + 1 + id[2]

\* scheduler.get_jobs() (scheduler.py:681): the ids of the jobs in the
\* order of the store, by next run time and then by id
RECURSIVE get_jobs(_, _)
get_jobs(js, c) ==
  IF js = {}
  THEN <<>>
  ELSE LET key(j) == until(j, c) * (2 * Cardinality(Groups) + 2)
                     + id_rank(j.id)
           m == CHOOSE j \in js : \A k \in js : key(j) <= key(k)
       IN <<m.id>> \o get_jobs(js \ {m}, c)

\* db.query(Group).filter(Group.is_active == True).all()
\* (scheduler.py:677): the rows of the active groups as they are now
RECURSIVE query_active(_, _)
query_active(gs, todo) ==
  IF todo = {}
  THEN <<>>
  ELSE LET g == CHOOSE x \in todo : \A y \in todo : x <= y
       IN (IF gs[g].exists /\ gs[g].is_active
           THEN <<[id |-> g, row |-> gs[g]]>>
           ELSE <<>>) \o query_active(gs, todo \ {g})

\* the test of the removal loop (scheduler.py:686-688)
is_old_job(id) ==
  id[1] \in {"morning_questions", "morning_group", "summary_group"}

\* PUT /groups/{id}/schedule on the event loop: the schedule is committed
\* (groups.py:565-575) and start_scheduler is entered (577-579)
put_schedule(g, sch) ==
  /\ rb[1].pc = "idle"
  /\ groups[g].exists
  /\ groups' = [groups EXCEPT ![g] =
                  [@ EXCEPT !.morning_hour = sch.morning_hour,
                            !.morning_minute = sch.morning_minute,
                            !.timezone = sch.timezone]]
  /\ rb' = [rb EXCEPT ![1].pc = "query"]
  /\ reply' = NoReply
  /\ Aside
  /\ UNCHANGED <<users, jobs, hs, withinHour, prompted, dispatches,
                 timeoutRan, started, msgs>>

\* POST /users/scheduler/restart on a thread of the pool: start_scheduler
\* is entered (users.py:434-439)
post_restart ==
  /\ rb[2].pc = "idle"
  /\ rb' = [rb EXCEPT ![2].pc = "query"]
  /\ reply' = NoReply
  /\ Aside
  /\ UNCHANGED <<groups, users, jobs, hs, withinHour, prompted, dispatches,
                 timeoutRan, started, msgs>>

\* scheduler.py:677: the active groups are read
rb_query(r) ==
  /\ rb[r].pc = "query"
  /\ rb' = [rb EXCEPT ![r].pc = "get_jobs",
                      ![r].active_groups = query_active(groups, Groups)]
  /\ reply' = NoReply
  /\ Aside
  /\ UNCHANGED <<groups, users, jobs, hs, withinHour, prompted, dispatches,
                 timeoutRan, started, msgs>>

\* scheduler.py:681: the jobs of the store are listed
rb_get_jobs(r) ==
  /\ rb[r].pc = "get_jobs"
  /\ rb' = [rb EXCEPT ![r].pc = "remove",
                      ![r].existing_jobs = get_jobs(jobs, clock)]
  /\ reply' = NoReply
  /\ Aside
  /\ UNCHANGED <<groups, users, jobs, hs, withinHour, prompted, dispatches,
                 timeoutRan, started, msgs>>

\* scheduler.py:685-689: one turn of the removal loop, or its end. A job
\* of the list that is no longer in the store makes remove_job raise
\* JobLookupError, which ends start_scheduler at its outer handler
\* (scheduler.py:749-750)
rb_remove(r) ==
  /\ rb[r].pc = "remove"
  /\ IF rb[r].existing_jobs = <<>>
     THEN /\ rb' = [rb EXCEPT ![r].pc = "add",
                              ![r].todo = rb[r].active_groups]
          /\ jobs' = jobs
     ELSE LET id == Head(rb[r].existing_jobs)
          IN IF ~is_old_job(id)
             THEN /\ rb' = [rb EXCEPT ![r].existing_jobs = Tail(@)]
                  /\ jobs' = jobs
             ELSE IF HasJob(jobs, id)
             THEN /\ rb' = [rb EXCEPT ![r].existing_jobs = Tail(@)]
                  /\ jobs' = remove_job(jobs, id)
             ELSE /\ rb' = [rb EXCEPT ![r] = IdleRebuild]
                  /\ jobs' = jobs
  /\ reply' = NoReply
  /\ Aside
  /\ UNCHANGED <<groups, users, hs, withinHour, prompted, dispatches,
                 timeoutRan, started, msgs>>

\* scheduler.py:693-715: one turn of the loop over the active groups that
\* were read, with the row that was read; after the loop the legacy job is
\* added if no active group was read (718-727), and start_scheduler ends
rb_add(r) ==
  /\ rb[r].pc = "add"
  /\ IF rb[r].todo = <<>>
     THEN /\ rb' = [rb EXCEPT ![r] = IdleRebuild]
          /\ jobs' = IF rb[r].active_groups = <<>>
                     THEN add_job(jobs, LegacyJob)
                     ELSE jobs
     ELSE LET group == Head(rb[r].todo)
          IN /\ rb' = [rb EXCEPT ![r].todo = Tail(@)]
             /\ jobs' = add_job(jobs, MorningJob(group.id, group.row))
  /\ reply' = NoReply
  /\ Aside
  /\ UNCHANGED <<groups, users, hs, withinHour, prompted, dispatches,
                 timeoutRan, started, msgs>>

\* a schedule is saved and the restart of the scheduler is requested, at
\* any moment of one another
NextRebuild ==
  \/ \E g \in Groups, sch \in Schedules : put_schedule(g, sch)
  \/ post_restart
  \/ \E r \in Rebuilders : rb_query(r)
  \/ \E r \in Rebuilders : rb_get_jobs(r)
  \/ \E r \in Rebuilders : rb_remove(r)
  \/ \E r \in Rebuilders : rb_add(r)

\* the application after start-up with all groups active or none
InitRebuild ==
  \E act \in {Groups, {}} :
    LET rows == [u \in Users |-> NewUser(GroupOf(u), Verified(u), TRUE)]
        gs == [g \in Groups |-> [NewGroup(0) EXCEPT !.is_active = g \in act]]
    IN /\ groups = gs
       /\ users = rows
       /\ jobs = start_scheduler({}, gs)
       /\ clock = [dow |-> 4, hour |-> 11, minute |-> 30]
       /\ sent = NoSent
       /\ report = NoReport
       /\ rb = [r \in Rebuilders |-> IdleRebuild]
       /\ hs = [h \in Handlers |-> IdleHandler]
       /\ reply = NoReply
       /\ withinHour = [g \in Groups |-> FALSE]
       /\ prompted = [g \in Groups |-> {}]
       /\ dispatches = [g \in Groups |-> <<>>]
       /\ timeoutRan = [g \in Groups |-> FALSE]
       /\ started = [g \in Groups |-> FALSE]
       /\ msgs = 0

SpecRebuild == InitRebuild /\ [][NextRebuild]_vars

TypeOK ==
  /\ \A u \in Users : users[u].response_retry_count \in Nat
  /\ \A h \in Handlers : hs[h].pc \in {"idle", "already", "judge", "store",
                                         "check"}

\* ==================================================================
\* Properties
\* ==================================================================
\* the members that have to answer in a cycle of g: the group's active,
\* verified members
Roster(g) ==
  {u \in Users : /\ users[u].group_id = g
                 /\ users[u].is_active
                 /\ users[u].is_verified
                 /\ users[u].is_group_member}

\* a cycle of g with a non-empty roster has been started
CycleOpen(g) == started[g] /\ prompted[g] # {}

AllIdle == \A h \in Handlers : hs[h].pc = "idle"

\* the length of a text without its leading and trailing blanks
TrimmedLen(t) ==
  LET ink == {i \in 1..Len(t) : t[i] # " "}
  IN IF ink = {} THEN 0
     ELSE (CHOOSE i \in ink : \A j \in ink : j <= i)
          - (CHOOSE i \in ink : \A j \in ink : i <= j) + 1

\* thread h takes a step of the given kind
Received(h) == hs[h].pc = "idle" /\ hs'[h].pc # "idle"
Judged(h) == hs[h].pc = "judge" /\ hs'[h].pc # "judge"
Stored(h) == hs[h].pc = "store" /\ hs'[h].pc = "check"
Checked(h) == hs[h].pc = "check" /\ hs'[h].pc = "idle"

\* C1: in a cycle (one start of one group) the summary dispatch is started
\* at most once, whatever responses, edits and timeouts occur
C1_DispatchAtMostOnce ==
  \A g \in Groups : CycleOpen(g) => Len(dispatches[g]) <= 1

C3_SerializedPerGroup ==
  [][ \A h \in Handlers :
        ( /\ Checked(h)
          /\ CycleOpen(users[hs[h].user].group_id)
          /\ Len(dispatches[users[hs[h].user].group_id]) > hs[h].seen )
        => dispatches' = dispatches ]_vars

\* C4: once the deadline of a cycle with a non-empty roster has passed, the
\* cycle is resolved and its summary dispatched, even if members did not
\* respond
C4_ResolvedAtDeadline ==
  \A g \in Groups :
    (CycleOpen(g) /\ ~withinHour[g]) => Len(dispatches[g]) >= 1

\* C5: after the start of a group with a non-empty roster, and until the
\* deadline or the early completion, exactly one timeout job of the group
\* is pending and it carries the group as its argument
C5_OneTimeoutPending ==
  \A g \in Groups :
    (CycleOpen(g) /\ withinHour[g] /\ dispatches[g] = <<>>)
    => /\ Cardinality({j \in jobs : j.id = <<"summary_group", g>>}) = 1
       /\ \A j \in jobs : j.id = <<"summary_group", g>> => j.args = <<g>>

\* C6: if the roster of a group is empty at its start, no prompt is sent,
\* no timeout job is scheduled and no summary is dispatched for the cycle
C6_EmptyRoster ==
  \A g \in Groups :
    (started[g] /\ Roster(g) = {})
    => /\ prompted[g] = {}
       /\ ~HasJob(jobs, <<"summary_group", g>>)
       /\ dispatches[g] = <<>>

\* group 2, whose only user is not verified, has been started and its hour
\* has passed
C6_Witness ==
  /\ started[2]
  /\ Roster(2) = {}
  /\ ~withinHour[2]
  /\ prompted[2] = {}
  /\ dispatches[2] = <<>>

\* C7: a member without an accepted record is rejected at most three times
\* in a cycle (retry_count counts the rejections), and a submission that
\* arrives when retry_count has reached 3 is accepted without the judge
C7_BoundedRetries ==
  [][ /\ \A u \in Users : ~users'[u].has_responded_today
                           => users'[u].response_retry_count <= MaxRetries
      /\ \A h \in Handlers :
           ( /\ Received(h)
             /\ LET row == users[hs'[h].user]
                IN /\ ~row.has_responded_today
                   /\ row.activation_token # EditingMode
                   /\ row.response_retry_count >= MaxRetries )
           => hs'[h].pc = "store" /\ hs'[h].judge = "skipped" ]_vars

\* C8: the retry_count of every member is between 0 and 3 in every state
C8_RetryRange ==
  \A u \in Users : users[u].response_retry_count \in 0..MaxRetries

C10_FailOpen ==
  [][ /\ reply'.judge # "fail"
      /\ \A h \in Handlers :
           /\ ( /\ Judged(h)
                /\ TrimmedLen(hs[h].text) >= MinLen
                /\ hs'[h].pc = "idle" )
              => reply'.judge = "no"
           /\ Stored(h)
              => /\ users'[hs[h].user].has_responded_today
                 /\ users'[hs[h].user].last_response = hs[h].text ]_vars

\* the generator has failed on a long enough first plan of a member and the
\* thread has gone on to store it
C10_Witness ==
  \E h \in Handlers :
    /\ hs[h].pc = "store"
    /\ hs[h].judge = "fail"
    /\ TrimmedLen(hs[h].text) >= MinLen
    /\ ~users[hs[h].user].has_responded_today
    /\ users[hs[h].user].response_retry_count < MaxRetries

\* ------------------------------------------------------------------
\* the start trigger of g fires in this step
StartStep(g) == ~withinHour[g] /\ withinHour'[g]

\* the cycle of g is collecting: started with a non-empty roster and no
\* summary dispatched yet
Collecting(g) == CycleOpen(g) /\ dispatches[g] = <<>>

\* the member has a current accepted record
HasRecord(u) == users[u].has_responded_today /\ users[u].last_response # None

\* a step that handles a /change or a message the bot does not take as a plan
CommandStep == msgs' # msgs /\ hs' = hs

\* C11: /change sets the edit-intent of a member only if the member has an
\* accepted record in the currently active (collecting) cycle of the group;
\* otherwise no state changes
C11_EditNeedsRecord ==
  [][ CommandStep =>
        \/ UNCHANGED <<groups, users, jobs, prompted, dispatches, started>>
        \/ \E u \in Users :
             /\ HasRecord(u)
             /\ Collecting(users[u].group_id)
             /\ users' = [users EXCEPT ![u].activation_token = EditingMode]
             /\ UNCHANGED <<groups, jobs, prompted, dispatches, started>> ]_vars

\* C12: a text of a member in edit-intent is stored without the quality
\* analysis whatever its length, replaces the record, and the edit-intent
\* is cleared and retry_count set to 0; the member has one current record
C12_EditReplaces ==
  [][ \A h \in Handlers :
        /\ (Received(h) /\ users[hs'[h].user].activation_token = EditingMode)
           => /\ hs'[h].pc = "store"
              /\ hs'[h].editing
              /\ hs'[h].judge = "skipped"
        /\ (Stored(h) /\ hs[h].editing)
           => /\ users'[hs[h].user].last_response = hs[h].text
              /\ users'[hs[h].user].last_response # None
              /\ users'[hs[h].user].has_responded_today
        /\ (Checked(h) /\ hs[h].editing)
           => /\ users'[hs[h].user].activation_token = NoToken
              /\ users'[hs[h].user].response_retry_count = 0
              /\ users'[hs[h].user].last_response
                   = users[hs[h].user].last_response
              /\ reply' = [text |-> "changed", judge |-> "skipped"] ]_vars

\* a short text has been stored as an edit over another record
C12_Witness ==
  \E h \in Handlers :
    /\ hs[h].pc = "check"
    /\ hs[h].editing
    /\ TrimmedLen(hs[h].text) < MinLen
    /\ users[hs[h].user].last_response = hs[h].text
    /\ users[hs[h].user].activation_token = EditingMode

\* C13: after a start of a group no roster member is in edit-intent, and a
\* member without a record in the new cycle is never handled as an edit
C13_EditIntentScoped ==
  [][ /\ \A g \in Groups :
           StartStep(g)
           => \A u \in Users :
                (users'[u].group_id = g /\ u \in prompted'[g])
                => users'[u].activation_token # EditingMode
      /\ \A h \in Handlers :
           (Received(h) /\ ~users[hs'[h].user].has_responded_today
              /\ started[users[hs'[h].user].group_id])
           => ~hs'[h].editing ]_vars

\* C14: every plain message of a member who has responded today and is not
\* in edit-intent is answered with "already recorded" and leaves the record
\* as it is
C14_AlreadyRecorded ==
  [][ \A h \in Handlers :
        /\ ( /\ Received(h)
             /\ users[hs'[h].user].has_responded_today
             /\ users[hs'[h].user].activation_token # EditingMode )
           => hs'[h].pc = "already"
        /\ (hs[h].pc = "already" /\ hs'[h].pc # "already")
           => /\ reply' = [text |-> "already_recorded", judge |-> "skipped"]
              /\ users'[hs[h].user].last_response
                   = users[hs[h].user].last_response
              /\ users'[hs[h].user].has_responded_today ]_vars

\* C16: once the summary of a cycle has been dispatched, the records and the
\* responded flags of the members of the group stay as they are until the
\* next start
C16_ResolvedIsFinal ==
  [][ \A g \in Groups :
        (CycleOpen(g) /\ dispatches[g] # <<>> /\ ~StartStep(g))
        => \A u \in Users :
             users[u].group_id = g
             => /\ users'[u].last_response = users[u].last_response
                /\ users'[u].has_responded_today
                     = users[u].has_responded_today ]_vars

\* C18: the start of a group is never executed while the previous cycle of
\* the group is still collecting
C18_OneOpenCycle ==
  [][ \A g \in Groups : StartStep(g) => ~Collecting(g) ]_vars

\* C19: right after the start of a group with a non-empty roster every
\* roster member has responded_today = false, retry_count = 0 and no record
C19_StartResets ==
  [][ \A g \in Groups :
        (StartStep(g) /\ prompted'[g] # {})
        => \A u \in prompted'[g] :
             /\ ~users'[u].has_responded_today
             /\ users'[u].response_retry_count = 0
             /\ users'[u].last_response = None ]_vars

\* a member who had a record and asked to edit it has been reset by a start
C19_Witness ==
  \E u \in Roster(1) :
    /\ withinHour[1]
    /\ u \in prompted[1]
    /\ users[u].activation_token = EditingMode
    /\ ~users[u].has_responded_today
    /\ users[u].last_response = None
    /\ users[u].response_retry_count = 0
    /\ AllIdle

\* C15: a message of a user who is not in the roster of the group (not a
\* group member, not active or not verified) is ignored: no thread takes it
\* up as a plan, and the record and the responded flag of such a user never
\* change
C15_NonRosterIgnored ==
  [][ /\ \A h \in Handlers :
           Received(h)
           => hs'[h].user \in Roster(users[hs'[h].user].group_id)
      /\ \A u \in Users :
           u \notin Roster(users[u].group_id)
           => /\ users'[u].has_responded_today = users[u].has_responded_today
              /\ users'[u].last_response = users[u].last_response ]_vars

\* C17: the roster of a cycle is the one of its start: a summary of the
\* cycle is started for exactly the members prompted at the start, and an
\* early one only when all of them have responded
C17_RosterFixed ==
  [][ \A g \in Groups :
        (CycleOpen(g) /\ ~StartStep(g) /\ dispatches'[g] # dispatches[g])
        => LET d == dispatches'[g][Len(dispatches'[g])]
           IN /\ d.users = prompted[g]
              /\ d.kind = "early"
                 => \A u \in prompted[g] : users'[u].has_responded_today ]_vars

\* the step changes something of group g: a row of its users, its prompted
\* members, its summaries, its timeout job or its start
Touched(g) ==
  \/ \E u \in Users : users[u].group_id = g /\ users'[u] # users[u]
  \/ prompted'[g] # prompted[g]
  \/ dispatches'[g] # dispatches[g]
  \/ HasJob(jobs', <<"summary_group", g>>) # HasJob(jobs, <<"summary_group", g>>)
  \/ started'[g] # started[g]
  \/ withinHour'[g] # withinHour[g]

\* C20: the cycles of different groups are independent: a step changes the
\* rows, prompts, summaries and timeout job of one group only, which is the
\* group of the member whose message is handled or the group whose trigger
\* fires, and an early summary of a group is started for its own members
\* when all of them have responded
C20_GroupsIndependent ==
  [][ /\ Cardinality({g \in Groups : Touched(g)}) <= 1
      /\ \A g \in Groups, h \in Handlers :
           (Touched(g) /\ hs'[h] # hs[h])
           => users[IF hs[h].user # 0 THEN hs[h].user
                    ELSE hs'[h].user].group_id = g
      /\ \A g \in Groups :
           (dispatches'[g] # dispatches[g] /\ ~StartStep(g))
           => LET d == dispatches'[g][Len(dispatches'[g])]
              IN /\ d.users = Roster(g)
                 /\ d.kind = "early"
                    => \A u \in Roster(g) : users'[u].has_responded_today
    ]_vars

\* the summary of group 1 has been dispatched while group 2 is collecting
\* and its member has a rejected text
C20_Witness ==
  /\ dispatches[1] # <<>>
  /\ Collecting(2)
  /\ ~users[2].has_responded_today
  /\ users[2].response_retry_count > 0
  /\ users[1].has_responded_today

\* ------------------------------------------------------------------
\* the cron jobs that call send_morning_questions_to_group(g)
OwnTriggers(g) ==
  {j \in jobs : /\ j.trigger = "cron"
                /\ j.func = "send_morning_questions_to_group"
                /\ j.args = <<g>>}

\* the cron jobs that start a cycle of g when g is active: its own and the
\* job of send_morning_questions, which starts every active group
StartTriggers(g) ==
  OwnTriggers(g) \cup {j \in jobs : /\ j.trigger = "cron"
                                    /\ j.func = "send_morning_questions"}

\* the start triggers match the groups table: one trigger per active group
\* with the hour, minute and time zone of its row, none of a group that is
\* inactive or deleted
TriggersMatch ==
  \A g \in Groups :
    IF groups[g].exists /\ groups[g].is_active
    THEN /\ Cardinality(StartTriggers(g)) = 1
         /\ \A j \in StartTriggers(g) :
              /\ j \in OwnTriggers(g)
              /\ j.hour = groups[g].morning_hour
              /\ j.minute = groups[g].morning_minute
              /\ j.timezone = groups[g].timezone
    ELSE OwnTriggers(g) = {}

\* a step in which start_scheduler runs
RebuildStep ==
  \/ restart_scheduler
  \/ \E g \in Groups, sch \in Schedules : update_group_schedule(g, sch)

\* a step in which an administrator changes or deletes a group
GroupChangeStep ==
  \/ \E g \in Groups, v \in BOOLEAN : update_group(g, "is_active", v)
  \/ \E g \in Groups, v \in {10, 17} : update_group(g, "morning_hour", v)
  \/ \E g \in Groups, sch \in Schedules : update_group_schedule(g, sch)
  \/ \E g \in Groups : delete_group(g)

\* C21: after start_scheduler has run, every active group has exactly one
\* recurring start trigger, with the hour, minute and time zone of the
\* group, and no other trigger starts a cycle of an inactive or deleted
\* group or starts an active group a second time
C21_OneTriggerPerGroup ==
  [][ RebuildStep => TriggersMatch' ]_vars

\* C22: after an administrator has edited the schedule or the active flag
\* of a group or deleted a group, the start triggers match the active
\* groups and their schedules
C22_RebuildAfterChange ==
  [][ GroupChangeStep => TriggersMatch' ]_vars

\* C23: a cycle of a group is started only on one of the days of the week
\* of the group, at the hour and minute of the group in its time zone
C23_OnlyOnConfiguredDays ==
  [][ \A g \in Groups :
        (StartStep(g) /\ groups[g].exists /\ groups[g].is_active)
        => LET t == LocalTime(clock, groups[g].timezone)
           IN /\ t.dow \in groups[g].days_of_week
              /\ t.hour = groups[g].morning_hour
              /\ t.minute = groups[g].morning_minute ]_vars

\* C24: when the start trigger or the timeout of a group that is deleted
\* or inactive fires, nothing happens: no row is reset, no question is
\* sent, no timeout is scheduled and no summary is started
C24_GoneGroupNoOp ==
  [][ \A g \in Groups :
        ~(groups[g].exists /\ groups[g].is_active)
        => /\ StartStep(g)
              => /\ UNCHANGED <<users, jobs, prompted, dispatches>>
                 /\ sent' = NoSent
           /\ generate_summary_after_timeout_for_group(g) = dispatches ]_vars

\* the trigger of group 1, which was deactivated with its members still
\* holding answers, has fired, and so has the trigger of the deleted
\* group 2
C24_Witness ==
  /\ groups[1].exists /\ ~groups[1].is_active
  /\ started[1] /\ withinHour[1]
  /\ prompted[1] = {}
  /\ \A u \in {1, 2} : users[u].has_responded_today
  /\ ~groups[2].exists
  /\ started[2]

\* C25: at the start of a group a delivery of the question that fails for
\* one member does not stop the deliveries to the other members, does not
\* take the member out of the roster, and the timeout is scheduled
C25_DeliveryFailureTolerated ==
  [][ \A g \in Groups :
        ( /\ StartStep(g)
          /\ groups[g].exists /\ groups[g].is_active
          /\ prompted'[g] # {} )
        => /\ prompted'[g] \subseteq sent'.ok \cup sent'.failed
           /\ sent'.ok \cap sent'.failed = {}
           /\ prompted'[g] = Roster(g)'
           /\ HasJob(jobs', <<"summary_group", g>>) ]_vars

\* the summary threads of g that are running
Running(g) == {i \in DOMAIN dispatches[g] : ~dispatches[g][i].done}

\* C26: when the completion check of an accepted response finds that every
\* roster member of the group has responded, the early summary is started
\* in that step, so before the deadline if the response came before it,
\* and no timeout of the group is pending afterwards
C26_EarlyComplete ==
  [][ \A h \in Handlers :
        LET g == users[hs[h].user].group_id
        IN ( /\ Checked(h)
             /\ Roster(g) # {}
             /\ \A u \in Roster(g) : users[u].has_responded_today )
           => /\ Len(dispatches'[g]) = Len(dispatches[g]) + 1
              /\ dispatches'[g][Len(dispatches'[g])].kind = "early"
              /\ dispatches'[g][Len(dispatches'[g])].users = Roster(g)
              /\ withinHour'[g] = withinHour[g]
              /\ ~HasJob(jobs', <<"summary_group", g>>) ]_vars

\* both members of group 1 have been accepted within the hour of the start
\* and the early summary has been started
C26_Witness ==
  /\ CycleOpen(1)
  /\ withinHour[1]
  /\ AllIdle
  /\ Len(dispatches[1]) = 1
  /\ dispatches[1][1].kind = "early"
  /\ dispatches[1][1].users = {1, 2}
  /\ ~HasJob(jobs, <<"summary_group", 1>>)

\* C30: the summary runs on a thread of its own: the handler that starts
\* it is idle again in the same step while the thread is still running,
\* and while a summary thread of a group is running messages are taken up
\* and the start trigger of the other group fires as it would without it
C30_SummaryOffThread ==
  [][ /\ \A h \in Handlers : Checked(h) => hs'[h] = IdleHandler
      /\ \A g \in Groups :
           (dispatches'[g] # dispatches[g] /\ dispatches'[g] # <<>>)
           => Len(dispatches'[g]) \in Running(g)'
      /\ \A g \in Groups :
           Running(g) # {}
           => /\ (msgs < MaxMsgs /\ hs[1].pc = "idle")
                 => ENABLED (\E u \in Users, t \in Texts : Receive(1, u, t))
              /\ \A g2 \in Groups \ {g} :
                   (~withinHour[g2] /\ HasJob(jobs, <<"morning_group", g2>>))
                   => ENABLED CronFire(g2, {}) ]_vars

\* a summary thread of group 1 is running and a member of the group has
\* since had another text stored; the trigger of group 2 has fired
C30_Witness ==
  /\ \E i \in Running(1) :
       \E u \in dispatches[1][i].users :
         /\ users[u].has_responded_today
         /\ users[u].last_response # dispatches[1][i].rows[u].last_response
  /\ AllIdle
  /\ started[2]

\* the summary thread i of group g ends in the step
FinishStep(g, i) ==
  /\ i \in Running(g)
  /\ i \notin Running(g)'

\* the member has a current record in the rows the thread was given
CurrentIn(d, u) ==
  d.rows[u].has_responded_today /\ d.rows[u].last_response # None

\* the members a list names, and the times it names u
Named(list) == {list[k] : k \in DOMAIN list}
Times(list, u) == Cardinality({k \in DOMAIN list : list[k] = u})

\* the responders and the members without a response a report names
RespondersOf(r) ==
  IF r.summary.kind = "generated"
  THEN [k \in DOMAIN r.summary.prompt.responses |->
          r.summary.prompt.responses[k][1]]
  ELSE [k \in DOMAIN r.summary.responses |-> r.summary.responses[k][1]]
MissingOf(r) ==
  IF r.summary.kind = "generated"
  THEN r.summary.prompt.not_responded
  ELSE r.summary.not_responded

\* C27: in every report handed to the transport each member of the roster
\* the thread was given is counted once, as a responder if and only if the
\* member has a current record and as not responded otherwise, and the two
\* counts add up to the size of the roster
C27_RosterPartitioned ==
  [][ \A g \in Groups : \A i \in DOMAIN dispatches[g] :
        (FinishStep(g, i) /\ report' # NoReport)
        => LET d == dispatches[g][i]
               r == report'
           IN /\ r.participants = Cardinality(d.users)
              /\ r.responded + r.not_responded = r.participants
              /\ r.responded = Cardinality({u \in d.users : CurrentIn(d, u)})
              /\ r.responded = Len(RespondersOf(r))
              /\ r.not_responded = Len(MissingOf(r))
              /\ \A u \in d.users :
                   /\ Times(RespondersOf(r), u) + Times(MissingOf(r), u) = 1
                   /\ u \in Named(RespondersOf(r)) <=> CurrentIn(d, u) ]_vars

\* a report about group 1 with one responder and one member that has not
\* responded has been handed to the transport
C27_Witness ==
  /\ report # NoReport
  /\ report.group = 1
  /\ report.participants = 2
  /\ report.responded = 1
  /\ report.not_responded = 1

\* C28: every summary thread started for a roster that is not empty ends
\* with a report, generated or basic, handed to the transport for the
\* administrator of the group
C28_DispatchEndsWithReport ==
  [][ \A g \in Groups : \A i \in DOMAIN dispatches[g] :
        (FinishStep(g, i) /\ dispatches[g][i].users # {})
        => /\ report' # NoReport
           /\ report'.summary.kind \in {"generated", "fallback"} ]_vars

\* C29: when the summarizer is unavailable the report that is handed to
\* the transport carries the basic report, which is the accepted text of
\* every responder and the list of all members without a response, each in
\* the order of the roster, and nothing else
C29_FallbackFromSameInputs ==
  [][ \A g \in Groups : \A i \in DOMAIN dispatches[g] :
        (FinishStep(g, i) /\ report' # NoReport /\ report'.asked = "none")
        => LET d == dispatches[g][i]
               s == report'.summary
               yes == by_id({u \in d.users : CurrentIn(d, u)})
               no == by_id({u \in d.users : ~CurrentIn(d, u)})
           IN /\ s.kind = "fallback"
              /\ DOMAIN s = {"kind", "responses", "not_responded"}
              /\ s.responses = [k \in DOMAIN yes |->
                                  <<yes[k], d.rows[yes[k]].last_response>>]
              /\ s.not_responded = no ]_vars

\* the summarizer was unavailable and the basic report with the text of
\* one member and the name of the other has been handed to the transport
C29_Witness ==
  /\ report # NoReport
  /\ report.asked = "none"
  /\ report.summary.kind = "fallback"
  /\ Len(report.summary.responses) = 1
  /\ Len(report.summary.not_responded) = 1

\* the thread h rejects the submission it has judged
Rejected(h) == hs[h].pc = "judge" /\ hs'[h].pc = "idle"

C34_AcceptedIsStored ==
  [][ \A h \in Handlers :
        /\ (Judged(h) /\ ~Rejected(h)) => hs'[h].pc = "store"
        /\ ( /\ Received(h)
             /\ LET row == users[hs'[h].user]
                IN /\ row.activation_token # EditingMode
                   /\ row.response_retry_count >= MaxRetries )
           => hs'[h].pc = "store"
        /\ Stored(h)
           => users' = [users EXCEPT
                          ![hs[h].user].has_responded_today = TRUE,
                          ![hs[h].user].last_response = hs[h].text]
        /\ Checked(h)
           => /\ users'[hs[h].user].response_retry_count = 0
              /\ reply'.text \in {"accepted", "changed"} ]_vars

\* a member whose short text was rejected three times has sent it again:
\* it has been accepted without the judge and is the record of the member
C34_Witness ==
  /\ reply.text = "accepted"
  /\ AllIdle
  /\ \E u \in Users :
       /\ users[u].has_responded_today
       /\ users[u].last_response = <<" ", " ", "o", "k", " ", " ">>
       /\ users[u].response_retry_count = 0

\* C37: an early summary of a group is started only by the completion
\* check of a stored response, and only when the roster of the group is
\* not empty and every member of it has responded; the handling of a
\* rejected submission, of a message for a plan that is already recorded
\* and of an accepted response or edit while a member of the roster is
\* outstanding starts none
C37_EarlyOnlyWhenComplete ==
  [][ \A g \in Groups :
        ( /\ Len(dispatches'[g]) > Len(dispatches[g])
          /\ dispatches'[g][Len(dispatches'[g])].kind = "early" )
        => /\ Roster(g) # {}
           /\ \A u \in Roster(g) : users[u].has_responded_today
           /\ \E h \in Handlers :
                Checked(h) /\ users[hs[h].user].group_id = g ]_vars

\* the plan of one member of group 1 has been accepted within the hour
\* while the other member is outstanding, and no summary has been started
C37_Witness ==
  /\ reply.text = "accepted"
  /\ withinHour[1]
  /\ Collecting(1)
  /\ \E u \in Roster(1) : HasRecord(u)
  /\ \E u \in Roster(1) : ~users[u].has_responded_today

\* a thread has stored an answer of a member of g and has not run its
\* completion check yet
CheckPending(g) ==
  \E h \in Handlers : hs[h].pc = "check" /\ users[hs[h].user].group_id = g

\* C39: the completion of a roster is never missed: however the threads
\* that store the last outstanding answers of a group interleave, once
\* every member of the roster has responded and no thread of the group is
\* still before its completion check, the early summary has been started
C39_CompletionNotMissed ==
  \A g \in Groups :
    ( /\ CycleOpen(g)
      /\ Roster(g) # {}
      /\ \A u \in Roster(g) : users[u].has_responded_today
      /\ ~CheckPending(g) )
    => \E i \in DOMAIN dispatches[g] : dispatches[g][i].kind = "early"

\* the answers of both members of group 1 were stored before either thread
\* ran its completion check; one thread has run it and the other has not
C39_Witness ==
  /\ CycleOpen(1)
  /\ \E h \in Handlers : /\ hs[h].pc = "check"
                          /\ hs[h].seen = 0
                          /\ users[hs[h].user].group_id = 1
  /\ \A u \in Roster(1) : HasRecord(u)
  /\ Len(dispatches[1]) = 1
  /\ dispatches[1][1].kind = "early"
  /\ \A u \in {1, 2} : dispatches[1][1].rows[u].has_responded_today

\* C35: after start_scheduler has run, the job of send_morning_questions,
\* which starts every active group, is in the store if and only if no
\* group is active
C35_LegacyIffNoGroups ==
  [][ RebuildStep
      => ( HasJob(jobs', LegacyJob.id)
           <=> \A g \in Groups :
                 ~(groups'[g].exists /\ groups'[g].is_active) ) ]_vars

\* C38: start_scheduler takes the date job of every cycle out of the
\* store and does not put it back: after a rebuild no timeout is pending,
\* also for a cycle that is collecting
C38_RebuildDropsTimeouts ==
  [][ RebuildStep
      => \A g \in Groups :
           /\ ~HasJob(jobs', <<"summary_group", g>>)
           /\ (withinHour[g] /\ Collecting(g))
              => (withinHour'[g] /\ Collecting(g)') ]_vars

\* the rebuild has run while the cycle of group 1 was collecting: the
\* hour has not passed, the timeout has not run, and the date job of the
\* cycle is gone while the group has its cron job
C38_Witness ==
  /\ withinHour[1]
  /\ Collecting(1)
  /\ ~timeoutRan[1]
  /\ ~HasJob(jobs, <<"summary_group", 1>>)
  /\ HasJob(jobs, <<"morning_group", 1>>)

\* a step in which send_repeat_questions runs
RepeatStep == \E fail \in SUBSET Users : send_repeat_questions(fail)

NoRebuildRunning == \A r \in Rebuilders : rb[r].pc = "idle"

\* C31: rebuilds that run at the same time leave the job store as one
\* rebuild after the other would: when they have ended, every active
\* group has its cron job and no second one, the job carries the hour,
\* minute and time zone that were committed last, and no inactive group
\* has a cron job
C31_ConcurrentRebuilds ==
  NoRebuildRunning
  => \A g \in Groups :
       IF groups[g].exists /\ groups[g].is_active
       THEN OwnTriggers(g) = {MorningJob(g, groups[g])}
       ELSE OwnTriggers(g) = {}
====
